---- MODULE Spec2Model ----
(***************************************************************************)
(* Model of tools/harbor/zdx_agent.py: the ZdxAgent adapter that builds    *)
(* the shell command with which the harness launches the zdx binary.       *)
(*                                                                         *)
(* A Python str is modelled as a sequence of one-character strings, so     *)
(* that quoting, joining and the shell's word splitting are computed       *)
(* character by character.  os.environ is a function whose domain is the   *)
(* set of variables that are set.                                          *)
(***************************************************************************)
EXTENDS Integers, Sequences, FiniteSets, TLC

VARIABLES
    environ,      \* os.environ: [set variable names -> str]
    zdx_repo,     \* self._zdx_repo
    pc,           \* position of the harness: idle, returned, executed, hooked
    instruction,  \* argument of the last create_run_agent_commands call
    result,       \* the list[ExecInput] that call returned (<<>>: none held)
    parsed,       \* what the shell made of result[1].command when it ran it
    stage_status, \* exit status of every stage of the pipeline that ran
    status,       \* exit status the shell reported for the command (-1: not run)
    context_in,   \* the context handed to populate_context_post_run
    context,      \* that context after the hook returned
    hook_return   \* what the hook returned

vars == <<environ, zdx_repo, pc, instruction, result, parsed, stage_status,
          status, context_in, context, hook_return>>

----------------------------------------------------------------------------
(* Bounds of the model *)

\* longest instruction enumerated over Alphabet
MaxLen == 2

----------------------------------------------------------------------------
(* Characters with a role in quoting: single quote, double quote, backquote.
   A character is a one-character string, except the backquote, which is
   written by name: the parser reads a backquote inside a string as the
   start of a quotation. *)

SQ == "'"
DQ == "\""
BQ == "backquote"

----------------------------------------------------------------------------
(* String constants of the source *)

ZDX_BIN == <<"/","r","o","o","t","/",".","c","a","r","g","o","/","b","i","n","/","z","d","x">>
NO_THREAD == <<"-","-","n","o","-","t","h","r","e","a","d">>
ROOT_FLAG == <<"-","-","r","o","o","t">>
EXEC == <<"e","x","e","c">>
PROMPT_FLAG == <<"-","p">>
MODEL_FLAG == <<"-","-","m","o","d","e","l">>
THINKING_FLAG == <<"-","-","t","h","i","n","k","i","n","g">>
TOOLS_FLAG == <<"-","-","t","o","o","l","s">>
DEFAULT_ROOT == <<"/","a","p","p">>
TEE_SUFFIX == <<" ","|"," ","t","e","e"," ","/","l","o","g","s","/","a","g","e","n","t","/","z","d","x",".","t","x","t">>
DEFAULT_REPO == <<".">>

CredentialKeys == <<"ANTHROPIC_API_KEY", "OPENAI_API_KEY", "OPENROUTER_API_KEY", "GEMINI_API_KEY">>

----------------------------------------------------------------------------
(* Python values *)

\* Optional[str]: None, or a str
None == [is_none |-> TRUE, val |-> <<>>]
Some(v) == [is_none |-> FALSE, val |-> v]

\* truth value of an Optional[str]: None and "" are falsy
Truthy(o) == ~o.is_none /\ o.val # <<>>

\* os.environ.get(key): None when the variable is not set
EnvironGet(env, key) == IF key \in DOMAIN env THEN Some(env[key]) ELSE None

\* os.environ.get(key, default)
EnvironGetDefault(env, key, default) == IF key \in DOMAIN env THEN env[key] ELSE default

\* value or default
OrDefault(value, default) == IF Truthy(value) THEN value.val ELSE default

Range(s) == {s[i] : i \in 1..Len(s)}

----------------------------------------------------------------------------
(* shlex.quote *)

\* the characters shlex's _find_unsafe accepts: [\w@%+=:,./-] under re.ASCII
SafeChars ==
    {"a","b","c","d","e","f","g","h","i","j","k","l","m","n","o","p","q","r","s","t","u","v","w","x","y","z",
     "A","B","C","D","E","F","G","H","I","J","K","L","M","N","O","P","Q","R","S","T","U","V","W","X","Y","Z",
     "0","1","2","3","4","5","6","7","8","9","_","@","%","+","=",":",",",".","/","-"}

\* what s.replace puts for one single quote inside a quoted word
QUOTE_ESCAPE == <<SQ,DQ,SQ,DQ,SQ>>

\* s.replace(single quote, QUOTE_ESCAPE)
RECURSIVE ReplaceQuotes(_)
ReplaceQuotes(s) ==
    IF s = <<>> THEN <<>>
    ELSE (IF Head(s) = SQ THEN QUOTE_ESCAPE ELSE <<Head(s)>>) \o ReplaceQuotes(Tail(s))

\* faulty variant of Quote: wraps in single quotes without escaping embedded ones
QuoteNoEscape(s) ==
    IF s = <<>> THEN <<SQ, SQ>>
    ELSE IF Range(s) \subseteq SafeChars THEN s
    ELSE <<SQ>> \o s \o <<SQ>>

\* faulty variant of Quote: no quoting at all
QuoteNothing(s) == s

\* faulty variant of Quote: every argument is wrapped, also those that need none
QuoteAlways(s) == <<SQ>> \o ReplaceQuotes(s) \o <<SQ>>

Quote(s) ==
    IF s = <<>> THEN <<SQ, SQ>>
    ELSE IF Range(s) \subseteq SafeChars THEN s
    ELSE <<SQ>> \o ReplaceQuotes(s) \o <<SQ>>

\* " ".join(shlex.quote(arg) for arg in args)
RECURSIVE JoinQuoted(_)
JoinQuoted(args) ==
    IF args = <<>> THEN <<>>
    ELSE IF Len(args) = 1 THEN Quote(args[1])
    ELSE Quote(args[1]) \o <<" ">> \o JoinQuoted(Tail(args))

----------------------------------------------------------------------------
(* create_run_agent_commands *)

\* faulty variant of CredentialEnv: copies every credential variable that is set
CredentialEnvIfSet(env) ==
    [k \in {k \in Range(CredentialKeys) : k \in DOMAIN env} |-> env[k]]

\* the env dict: the credential variables whose value is truthy
CredentialEnv(env) ==
    [k \in {k \in Range(CredentialKeys) : Truthy(EnvironGet(env, k))} |-> env[k]]

\* faulty variant of Root: an empty ZDX_ROOT falls back to the default
RootOrDefault(env) == OrDefault(EnvironGet(env, "ZDX_ROOT"), DEFAULT_ROOT)

Root(env) == EnvironGetDefault(env, "ZDX_ROOT", DEFAULT_ROOT)

\* faulty variant of OptionalPair: the pair is appended whenever the variable is set
OptionalPairIfSet(flag, value) ==
    IF ~value.is_none THEN <<flag, value.val>> ELSE <<>>

\* if value: args.extend([flag, value])
OptionalPair(flag, value) ==
    IF Truthy(value) THEN <<flag, value.val>> ELSE <<>>

\* faulty variant of Args: the instruction is appended after the optional pairs
ArgsPromptLast(instr, env) ==
    <<ZDX_BIN, NO_THREAD, ROOT_FLAG, Root(env), EXEC>>
        \o OptionalPair(MODEL_FLAG, EnvironGet(env, "ZDX_MODEL"))
        \o OptionalPair(THINKING_FLAG, EnvironGet(env, "ZDX_THINKING"))
        \o OptionalPair(TOOLS_FLAG, EnvironGet(env, "ZDX_TOOLS"))
        \o <<PROMPT_FLAG, instr>>

Args(instr, env) ==
    <<ZDX_BIN, NO_THREAD, ROOT_FLAG, Root(env), EXEC, PROMPT_FLAG, instr>>
        \o OptionalPair(MODEL_FLAG, EnvironGet(env, "ZDX_MODEL"))
        \o OptionalPair(THINKING_FLAG, EnvironGet(env, "ZDX_THINKING"))
        \o OptionalPair(TOOLS_FLAG, EnvironGet(env, "ZDX_TOOLS"))

Command(instr, env) == JoinQuoted(Args(instr, env)) \o TEE_SUFFIX

\* the returned list[ExecInput]
ExecInputs(instr, env) ==
    << [command |-> Command(instr, env), cwd |-> Root(env), env |-> CredentialEnv(env)] >>

----------------------------------------------------------------------------
(* populate_context_post_run *)

\* faulty variant of PopulateContextPostRun: the hook fills in a token count
PopulateContextFillsTokens(ctx) == [ctx EXCEPT !.n_input_tokens = 0]

\* the context object after the hook ran on it: the hook only returns
PopulateContextPostRun(ctx) == ctx

\* __init__: self._zdx_repo = zdx_repo or "."
InitZdxRepo(arg) == OrDefault(arg, DEFAULT_REPO)

\* faulty variant of CreateRunAgentCommands: the configured repository path is used as cwd
CreateRunAgentCommandsRepoCwd(self_zdx_repo, instr, env) ==
    << [ExecInputs(instr, env)[1] EXCEPT !.cwd = self_zdx_repo] >>

\* the method as called on the adapter: self is not read
CreateRunAgentCommands(self_zdx_repo, instr, env) == ExecInputs(instr, env)

----------------------------------------------------------------------------
(* The shell that runs ExecInput.command: POSIX token recognition (XCU 2.3),
   quoting (2.2) and pipelines (2.9.2).  A scan state holds the quoting mode,
   the word, stage and pipeline under construction, and the constructs met
   that are neither a plain word nor the pipe operator. *)

ShInit ==
    [mode |-> "plain", esc |-> FALSE, cur |-> <<>>, inword |-> FALSE,
     words |-> <<>>, stages |-> <<>>, pipelines |-> <<>>, hazards |-> {}]

ShEndWord(st) ==
    IF st.inword
    THEN [st EXCEPT !.words = Append(@, st.cur), !.cur = <<>>, !.inword = FALSE]
    ELSE st

\* the pipe operator ends a stage
ShEndStage(st) ==
    LET s == ShEndWord(st)
    IN  [s EXCEPT !.stages = Append(@, s.words), !.words = <<>>]

\* ; & and newline end a pipeline; an empty one is no command
ShEndPipeline(st) ==
    LET s == ShEndStage(st)
    IN  [s EXCEPT !.pipelines = IF s.stages = << <<>> >> THEN @ ELSE Append(@, s.stages),
                  !.stages = <<>>]

ShLiteral(st, c) == [st EXCEPT !.cur = Append(@, c), !.inword = TRUE]

ShHazard(st, h) == [st EXCEPT !.hazards = @ \cup {h}]

\* one character outside quotes
ShPlain(st, c) ==
    IF st.esc THEN [ShLiteral(st, c) EXCEPT !.esc = FALSE]
    ELSE IF c = "\\" THEN [st EXCEPT !.esc = TRUE, !.inword = TRUE]
    ELSE IF c = SQ THEN [st EXCEPT !.mode = "single", !.inword = TRUE]
    ELSE IF c = DQ THEN [st EXCEPT !.mode = "double", !.inword = TRUE]
    ELSE IF c \in {" ", "\t"} THEN ShEndWord(st)
    ELSE IF c = "|" THEN ShEndStage(st)
    ELSE IF c \in {";", "\n"} THEN ShEndPipeline(st)
    ELSE IF c = "&" THEN ShHazard(ShEndPipeline(st), "background")
    ELSE IF c \in {"<", ">"} THEN ShHazard(ShEndWord(st), "redirection")
    ELSE IF c \in {"(", ")"} THEN ShHazard(ShEndWord(st), "subshell")
    ELSE IF c \in {"$", BQ} THEN ShHazard(ShLiteral(st, c), "expansion")
    ELSE IF c \in {"*", "?", "["} THEN ShHazard(ShLiteral(st, c), "glob")
    ELSE IF c = "~" /\ ~st.inword THEN ShHazard(ShLiteral(st, c), "expansion")
    ELSE IF c = "#" /\ ~st.inword THEN ShHazard([st EXCEPT !.mode = "comment"], "comment")
    ELSE ShLiteral(st, c)

\* one character inside double quotes
ShDouble(st, c) ==
    IF st.esc
    THEN IF c \in {"$", BQ, DQ, "\\"} THEN [ShLiteral(st, c) EXCEPT !.esc = FALSE]
         ELSE IF c = "\n" THEN [st EXCEPT !.esc = FALSE]
         ELSE [ShLiteral(ShLiteral(st, "\\"), c) EXCEPT !.esc = FALSE]
    ELSE IF c = "\\" THEN [st EXCEPT !.esc = TRUE]
    ELSE IF c = DQ THEN [st EXCEPT !.mode = "plain"]
    ELSE IF c \in {"$", BQ} THEN ShHazard(ShLiteral(st, c), "expansion")
    ELSE ShLiteral(st, c)

ShStep(st, c) ==
    IF st.mode = "single"
    THEN IF c = SQ THEN [st EXCEPT !.mode = "plain"] ELSE ShLiteral(st, c)
    ELSE IF st.mode = "double" THEN ShDouble(st, c)
    ELSE IF st.mode = "comment"
    THEN IF c = "\n" THEN ShEndPipeline([st EXCEPT !.mode = "plain"]) ELSE st
    ELSE ShPlain(st, c)

ShModes == {"plain", "single", "double", "comment"}

\* the scan of s[lo..hi] from state st, left to right; the range is halved and
\* the left half is evaluated before the right one is entered, which keeps the
\* evaluation shallow
RECURSIVE ShScan(_, _, _, _)
ShScan(s, lo, hi, st) ==
    IF lo > hi THEN st
    ELSE IF lo = hi THEN ShStep(st, s[lo])
    ELSE LET mid == (lo + hi) \div 2
             left == ShScan(s, lo, mid, st)
         IN  CASE left.mode \in ShModes -> ShScan(s, mid + 1, hi, left)

\* the commands the shell reads from the string: a sequence of pipelines, each a
\* sequence of stages, each an argument vector
ShParse(s) ==
    LET last == ShScan(s, 1, Len(s), ShInit)
        done == ShEndPipeline(last)
    IN  [pipelines |-> done.pipelines,
         hazards |-> done.hazards,
         error |-> last.mode \in {"single", "double"} \/ last.esc]

NotParsed == [pipelines |-> <<>>, hazards |-> {"not run"}, error |-> FALSE]

\* exit status of a pipeline without pipefail: that of its last stage
PipelineStatus(codes) == IF codes = <<>> THEN 0 ELSE codes[Len(codes)]

ExitCodes == {0, 1}

\* the stages of the last pipeline of a parse
LastStages(p) == IF p.pipelines = <<>> THEN <<>> ELSE p.pipelines[Len(p.pipelines)]

----------------------------------------------------------------------------
(* Inputs *)

Alphabet == {"a", " ", SQ}

\* every string over Alphabet of length at most n
StringsUpTo(n) == UNION {[1..k -> Alphabet] : k \in 0..n}

RefInstruction == <<"f","i","x"," ","t","h","e"," ","b","u","g"," ","i","n"," ","m","a","i","n",".","p","y">>

\* instructions with the shell's other metacharacters, and one that is a flag name
SpecialInstructions ==
    {RefInstruction,
     MODEL_FLAG,
     <<"$","(","x",")",BQ,"y",BQ>>,
     <<"a",";","b","|","c","&","d",">","e">>,
     <<DQ,"\\","\n",DQ>>,
     <<"#","x"," ","~","*">>}

Instructions == StringsUpTo(MaxLen) \cup SpecialInstructions

CredentialKeySet == Range(CredentialKeys)
ZdxKeys == {"ZDX_ROOT", "ZDX_MODEL", "ZDX_THINKING", "ZDX_TOOLS"}
EnvKeys == CredentialKeySet \cup ZdxKeys

\* the values a variable is set to: the empty string, and one or two others
EnvValues(key) ==
    {<<>>} \cup
    CASE key = "ANTHROPIC_API_KEY" -> {<<"s","k","-","a">>}
      [] key = "OPENAI_API_KEY" -> {<<"s","k"," ","o">>}
      [] key = "OPENROUTER_API_KEY" -> {<<"s","k","$","r">>}
      [] key = "GEMINI_API_KEY" -> {<<"s","k","=","g">>}
      [] key = "ZDX_ROOT" -> {<<"/","w"," ","&","\n",DQ>>, MODEL_FLAG}
      [] key = "ZDX_MODEL" -> {<<"o","|",SQ,"$">>}
      [] key = "ZDX_THINKING" -> {TOOLS_FLAG}
      [] key = "ZDX_TOOLS" -> {<<"r",";","w"," ",BQ,"x",BQ>>}

\* the environments enumerated: credentials varied with no ZDX_* variable set,
\* ZDX_* variables varied with no credential set, and any two variables set
InEnvSpace(env) ==
    \/ DOMAIN env \subseteq CredentialKeySet
    \/ DOMAIN env \subseteq ZdxKeys
    \/ Cardinality(DOMAIN env) <= 2

\* zdx_repo arguments of the constructor
RepoArgs == {None, Some(<<>>), Some(<<"/","z">>)}

\* run contexts: n_input_tokens is -1 for None
EmptyContext == [n_input_tokens |-> -1]
Contexts == {EmptyContext, [n_input_tokens |-> 12]}

----------------------------------------------------------------------------
(* The state machine *)

NoEnviron == [k \in {} |-> <<>>]

Init ==
    /\ environ = NoEnviron
    /\ zdx_repo \in {InitZdxRepo(arg) : arg \in RepoArgs}
    /\ pc = "idle"
    /\ instruction = <<>>
    /\ result = <<>>
    /\ parsed = NotParsed
    /\ stage_status = <<>>
    /\ status = -1
    /\ context_in = EmptyContext
    /\ context = EmptyContext
    /\ hook_return = "not called"

\* the harness sets a variable of the ambient environment between runs
Setenv(key, value) ==
    /\ pc \in {"idle", "hooked"}
    /\ LET env == [k \in DOMAIN environ \cup {key} |-> IF k = key THEN value ELSE environ[k]]
       IN  /\ InEnvSpace(env)
           /\ environ' = env
    /\ UNCHANGED <<zdx_repo, pc, instruction, result, parsed, stage_status, status,
                   context_in, context, hook_return>>

\* the harness unsets one
Unsetenv(key) ==
    /\ pc \in {"idle", "hooked"}
    /\ key \in DOMAIN environ
    /\ environ' = [k \in DOMAIN environ \ {key} |-> environ[k]]
    /\ UNCHANGED <<zdx_repo, pc, instruction, result, parsed, stage_status, status,
                   context_in, context, hook_return>>

\* agent.create_run_agent_commands(instr), at the start of a run or again
\* before the command ran; the run has a fresh context
CreateRunAgentCommandsCall(instr) ==
    /\ pc # "executed"
    /\ result' = CreateRunAgentCommands(zdx_repo, instr, environ)
    /\ instruction' = instr
    /\ pc' = "returned"
    /\ parsed' = NotParsed
    /\ stage_status' = <<>>
    /\ status' = -1
    /\ context_in' = EmptyContext
    /\ context' = EmptyContext
    /\ hook_return' = "not called"
    /\ UNCHANGED <<environ, zdx_repo>>

\* the harness hands result[1].command to a shell; the first stage of the
\* pipeline and every later one exit with some status, a syntax error exits
\* with 2
ExecCommand ==
    /\ pc = "returned"
    /\ parsed' = ShParse(result[1].command)
    /\ LET n == Len(LastStages(parsed'))
       IN  \E later \in [2..n -> ExitCodes] : \E first \in ExitCodes :
             /\ stage_status' = [i \in 1..n |-> IF i = 1 THEN first ELSE later[i]]
             /\ status' = IF parsed'.error THEN 2 ELSE PipelineStatus(stage_status')
    /\ pc' = "executed"
    /\ UNCHANGED <<environ, zdx_repo, instruction, result, context_in, context, hook_return>>

\* agent.populate_context_post_run(ctx): the harness calls it when the run is
\* over (or at any other time) and then holds no descriptor any more
PopulateContextPostRunCall(ctx) ==
    /\ context_in' = ctx
    /\ context' = PopulateContextPostRun(ctx)
    /\ hook_return' = "None"
    /\ pc' = "hooked"
    /\ instruction' = <<>>
    /\ result' = <<>>
    /\ parsed' = NotParsed
    /\ stage_status' = <<>>
    /\ status' = -1
    /\ UNCHANGED <<environ, zdx_repo>>

\* every instruction is enumerated for the first call of a run, the special
\* ones for a call that follows another with no hook in between
Next ==
    \/ \E key \in EnvKeys : \E value \in EnvValues(key) : Setenv(key, value)
    \/ \E key \in EnvKeys : Unsetenv(key)
    \/ \E instr \in Instructions : pc # "returned" /\ CreateRunAgentCommandsCall(instr)
    \/ \E instr \in SpecialInstructions : pc = "returned" /\ CreateRunAgentCommandsCall(instr)
    \/ ExecCommand
    \/ \E ctx \in Contexts : PopulateContextPostRunCall(ctx)

Spec == Init /\ [][Next]_vars

----------------------------------------------------------------------------
(* Vocabulary of the properties *)

\* a descriptor is held: the call returned and the hook has not ended the run
Returned == pc \in {"returned", "executed"}

\* the shell ran the command of the descriptor
Executed == pc = "executed"

\* the variable is set to a non-empty value
NonEmpty(key) == key \in DOMAIN environ /\ environ[key] # <<>>

\* the first stage of the first pipeline the shell read: the zdx invocation
ZdxArgv == parsed.pipelines[1][1]

\* the shell read at least one stage and met no unterminated quote
ParsedSome == ~parsed.error /\ parsed.pipelines # <<>> /\ parsed.pipelines[1] # <<>>

FlagOf(key) ==
    CASE key = "ZDX_MODEL" -> MODEL_FLAG
      [] key = "ZDX_THINKING" -> THINKING_FLAG
      [] key = "ZDX_TOOLS" -> TOOLS_FLAG

FlagKeys == {"ZDX_MODEL", "ZDX_THINKING", "ZDX_TOOLS"}

\* the number of optional pairs the environment asks for
NPairs == Cardinality({key \in FlagKeys : NonEmpty(key)})

\* the working directory the environment asks for
WantedRoot == IF "ZDX_ROOT" \in DOMAIN environ THEN environ["ZDX_ROOT"] ELSE DEFAULT_ROOT

\* the words after the instruction, and the positions in them where an option
\* name stands (a word that follows an option name is that option's value)
OptionTail == SubSeq(ZdxArgv, 8, Len(ZdxArgv))
OptionPositions == {i \in 1..Len(OptionTail) : i % 2 = 1}

\* the pair the environment asks for a flag, as the shell should see it
WantedPair(key) == IF NonEmpty(key) THEN <<FlagOf(key), environ[key]>> ELSE <<>>

TEE == <<"t","e","e">>
LOG_PATH == <<"/","l","o","g","s","/","a","g","e","n","t","/","z","d","x",".","t","x","t">>

RefCommand == <<"/","r","o","o","t","/",".","c","a","r","g","o","/","b","i","n","/","z","d","x"," ","-","-","n","o","-","t","h","r","e","a","d"," ","-","-","r","o","o","t"," ","/","a","p","p"," ","e","x","e","c"," ","-","p"," ",SQ,"f","i","x"," ","t","h","e"," ","b","u","g"," ","i","n"," ","m","a","i","n",".","p","y",SQ," ","|"," ","t","e","e"," ","/","l","o","g","s","/","a","g","e","n","t","/","z","d","x",".","t","x","t">>

\* the repository paths an adapter can be configured with
ZdxRepos == {InitZdxRepo(arg) : arg \in RepoArgs}

----------------------------------------------------------------------------
(* Properties *)

\* C1: round trip of the instruction.  When a shell has word-split and
\* unquoted the command, the zdx invocation holds the prompt flag -p as its
\* sixth word and the instruction, character for character, as its seventh,
\* and the instruction has added no word: the invocation has seven words plus
\* two for every optional pair.
C1_InstructionRoundTrip ==
    Executed =>
        /\ ParsedSome
        /\ Len(ZdxArgv) = 7 + 2 * NPairs
        /\ ZdxArgv[6] = PROMPT_FLAG
        /\ ZdxArgv[7] = instruction

\* C1 witness: the command ran for an instruction holding a single quote and a space
C1_Witness == Executed /\ {SQ, " "} \subseteq Range(instruction)

\* C2 as stated: the env mapping of the descriptor holds exactly the credential
\* variables that are set in the ambient environment, with their values.
C2_ExactlyTheSetCredentials ==
    Returned =>
        result[1].env = [k \in DOMAIN environ \cap CredentialKeySet |-> environ[k]]

\* C2 amended: the env mapping of the descriptor holds exactly the credential
\* variables that are set to a non-empty value, each with its value, and no
\* other key; a credential variable set to the empty string is left out.
C2_ExactlyTheNonEmptyCredentials ==
    Returned =>
        /\ DOMAIN result[1].env = {k \in CredentialKeySet : NonEmpty(k)}
        /\ \A k \in DOMAIN result[1].env : result[1].env[k] = environ[k]

\* C2 witness: a call returned with one credential set to a value, another set
\* to the empty string and a third unset
C2_Witness ==
    /\ Returned
    /\ \E k1, k2, k3 \in CredentialKeySet :
         /\ NonEmpty(k1)
         /\ k2 \in DOMAIN environ /\ environ[k2] = <<>>
         /\ k3 \notin DOMAIN environ

\* C3 as stated: the command succeeds if and only if the zdx process exits
\* with status 0.
C3_StatusReflectsZdx ==
    (Executed /\ ParsedSome /\ Len(stage_status) >= 1) =>
        ((status = 0) <=> (stage_status[1] = 0))

\* C4: optional flags.  For each of ZDX_MODEL, ZDX_THINKING, ZDX_TOOLS on its
\* own: when the variable is unset or empty, its flag stands at no option
\* position of the zdx invocation; when it is non-empty, the flag stands at
\* exactly one option position and the next word is the value of the variable,
\* as one word.  (An option position is an odd place among the words after
\* the instruction; an instruction, a root or a value that merely equals the
\* name of a flag is not that flag.)
C4_OptionalFlags ==
    Executed =>
        /\ ParsedSome
        /\ Len(ZdxArgv) >= 7
        /\ Len(OptionTail) % 2 = 0
        /\ \A key \in FlagKeys :
             LET at == {i \in OptionPositions : OptionTail[i] = FlagOf(key)}
             IN  IF NonEmpty(key)
                 THEN /\ Cardinality(at) = 1
                      /\ \A i \in at : OptionTail[i + 1] = environ[key]
                 ELSE at = {}

\* C4 witness: the command ran with one flag variable non-empty, one set to the
\* empty string and one unset
C4_Witness ==
    /\ Executed
    /\ \E k1, k2, k3 \in FlagKeys :
         /\ NonEmpty(k1)
         /\ k2 \in DOMAIN environ /\ environ[k2] = <<>>
         /\ k3 \notin DOMAIN environ

\* C5: root resolution.  The working directory of the descriptor is /app when
\* ZDX_ROOT is unset and the value of ZDX_ROOT when it is set, the empty
\* string included; once the shell has unquoted the command, the word after
\* --root is that same string.
C5_RootResolution ==
    /\ Returned => result[1].cwd = WantedRoot
    /\ Executed =>
         /\ ParsedSome
         /\ Len(ZdxArgv) >= 4
         /\ ZdxArgv[3] = ROOT_FLAG
         /\ ZdxArgv[4] = result[1].cwd

\* C5 witness: the command ran with ZDX_ROOT set to the empty string
C5_Witness == Executed /\ "ZDX_ROOT" \in DOMAIN environ /\ environ["ZDX_ROOT"] = <<>>

\* C6: injection safety.  Whatever the instruction and the ZDX_* values, the
\* shell reads the command as one pipeline of two stages, the zdx program with
\* seven arguments plus two per optional pair, and tee with the log path; it
\* meets no unterminated quote, no further command, no redirection, no
\* expansion, no comment and no subshell.
C6_InjectionSafety ==
    Executed =>
        /\ ~parsed.error
        /\ parsed.hazards = {}
        /\ Len(parsed.pipelines) = 1
        /\ Len(parsed.pipelines[1]) = 2
        /\ parsed.pipelines[1][1][1] = ZDX_BIN
        /\ Len(parsed.pipelines[1][1]) = 7 + 2 * NPairs
        /\ parsed.pipelines[1][2] = <<TEE, LOG_PATH>>

\* C6 witness: the command ran with separators, a pipe, a redirection in the
\* instruction and a command substitution in ZDX_TOOLS
C6_Witness ==
    /\ Executed
    /\ {";", "|", "&", ">"} \subseteq Range(instruction)
    /\ NonEmpty("ZDX_TOOLS") /\ BQ \in Range(environ["ZDX_TOOLS"])

\* C7: the reference example.  For the instruction "fix the bug in main.py"
\* with no ZDX_* variable set, the call returns one descriptor whose command
\* is the reference command, character for character.
C7_ReferenceExample ==
    (Returned /\ instruction = RefInstruction /\ DOMAIN environ \cap ZdxKeys = {}) =>
        /\ Len(result) = 1
        /\ result[1].command = RefCommand

\* C7 witness: the call returned for the reference instruction
C7_Witness == Returned /\ instruction = RefInstruction /\ DOMAIN environ \cap ZdxKeys = {}

\* C8: the post-run hook.  A step in which the hook runs (the harness reaches
\* "hooked", or hands the hook another context) returns None, leaves the
\* context as it was handed in, and leaves the configured repository path and
\* the ambient environment unchanged.
C8_HookLeavesAllUnchanged ==
    [][(pc' = "hooked" /\ (pc # "hooked" \/ context_in' # context_in)) =>
          /\ hook_return' = "None"
          /\ context' = context_in'
          /\ zdx_repo' = zdx_repo
          /\ environ' = environ]_vars

\* C8 witness: the hook ran on a context that already holds a token count,
\* with some variable set in the environment
C8_Witness ==
    /\ pc = "hooked"
    /\ context_in = [n_input_tokens |-> 12]
    /\ DOMAIN environ # {}

\* C9: statelessness.  A step in which create_run_agent_commands is called
\* leaves the ambient environment and the configured repository path
\* unchanged and returns the descriptor that an adapter constructed with any
\* other repository path returns for this instruction in the environment as
\* it is at the call; a step in which the hook is called changes
\* neither the environment nor the repository path.
C9_Stateless ==
    [][/\ pc' = "returned" =>
             /\ environ' = environ
             /\ zdx_repo' = zdx_repo
             /\ \A repo \in ZdxRepos \ {zdx_repo} :
                  result' = CreateRunAgentCommands(repo, instruction', environ)
       /\ (pc' = "hooked" /\ (pc # "hooked" \/ context_in' # context_in)) =>
             /\ environ' = environ
             /\ zdx_repo' = zdx_repo]_vars

\* C9 witness: a call returned on an adapter constructed with a repository
\* path, after the environment was changed
C9_Witness ==
    /\ pc = "returned"
    /\ zdx_repo # DEFAULT_REPO
    /\ NonEmpty("ZDX_ROOT")
    /\ NonEmpty("ZDX_MODEL")

\* C10: argument layout.  The zdx invocation the shell sees is the program,
\* --no-thread, --root, the root, exec, -p, the instruction, then the pairs of
\* the non-empty variables in the order --model, --thinking, --tools, and
\* nothing else, also when the instruction or the root is the name of a flag.
C10_ArgumentLayout ==
    Executed =>
        /\ ParsedSome
        /\ ZdxArgv = <<ZDX_BIN, NO_THREAD, ROOT_FLAG, WantedRoot, EXEC, PROMPT_FLAG, instruction>>
                        \o WantedPair("ZDX_MODEL")
                        \o WantedPair("ZDX_THINKING")
                        \o WantedPair("ZDX_TOOLS")

\* C10 witness: the command ran with the instruction and the root both equal
\* to --model, ZDX_MODEL unset and ZDX_TOOLS non-empty
C10_Witness ==
    /\ Executed
    /\ instruction = MODEL_FLAG
    /\ "ZDX_ROOT" \in DOMAIN environ /\ environ["ZDX_ROOT"] = MODEL_FLAG
    /\ "ZDX_MODEL" \notin DOMAIN environ
    /\ NonEmpty("ZDX_TOOLS")

====
